---- MODULE Spec2Model ----
(***************************************************************************)
(* Model of the NVIDIA-Patcher backup manager (src/src/backup_manager.py)  *)
(* together with the part of the driver detector it calls                  *)
(* (src/src/driver_detector.py, get_nvidia_module_paths).                  *)
(*                                                                         *)
(* The state is the host file system as far as the manager touches it (the *)
(* driver modules, the configuration files, the snapshot directories under *)
(* the backup root and the persisted index backup_index.json), the wall    *)
(* clock, and each manager's in-memory index backup_data.  Every public    *)
(* method is one action; the I/O calls that can raise are inputs of the    *)
(* action (a "fault" per file).  ret holds what the last call returned and *)
(* logged.                                                                 *)
(***************************************************************************)
EXTENDS Integers, Sequences, FiniteSets, TLC

VARIABLES orig, conf, snap, backup_data, index_file, now, ret, budget,
          disk, result

\* the patch verifier's state (src/tools/verify_patch.py): the module files
\* it reads, as bytes, and what its last call returned
verifier_vars == <<disk, result>>

vars == <<orig, conf, snap, backup_data, index_file, now, ret, budget, disk, result>>

----------------------------------------------------------------------------
(* Bounds of the model.                                                    *)

\* a run is at most this many calls and events
MaxSteps == 4
\* the same, for the runs in which I/O calls raise
MaxStepsIO == 3
\* the same, for the runs in which a removal or the store of the index raises
MaxStepsFault == 4
\* the same, for the runs of two managers on one backup root
MaxStepsTwo == 4
\* the files the verifier is given are at most this many bytes long
MaxLen == 7
\* the same, for a manager constructed again between its calls
MaxStepsReload == 4
\* the same, for the runs of the patcher
MaxStepsPatch == 2
\* the wall clock starts at this second
FirstSecond == 9
\* and advances at most this many seconds
MaxTicks == 1
\* create_backup is not started on a ledger that already holds this many
MaxBackups == 2
\* largest keep_count passed to cleanup_old_backups
MaxKeep == 1

Versions == {"535", "550"}
Managers == {"A"}
AllManagers == {"A", "B"}

Absent == "absent"
\* file contents: two different module binaries (two builds, or a module
\* before and after the patch tool), and a copy with a flipped byte
Content == {"bytes_a", "bytes_b"}
Junk == "junk"

\* candidate module files: under /lib/modules/<release>/ (found for every
\* version) and under <common_path>/nvidia-<version>/ (found for that version)
ModulePaths ==
    { [dir |-> "/lib/modules/k/kernel/drivers/video", file |-> "nvidia.ko", version |-> "any"],
      [dir |-> "/usr/lib64/nvidia-535", file |-> "nvidia.ko", version |-> "535"],
      [dir |-> "/usr/lib64/nvidia-550", file |-> "nvidia-uvm.ko", version |-> "550"] }

ModuleFiles == {p.file : p \in ModulePaths}

ConfigPaths ==
    { [dir |-> "/etc/modprobe.d", file |-> "nvidia.conf"] }

ConfigFiles == {c.file : c \in ConfigPaths}

----------------------------------------------------------------------------
(* Pure helpers.                                                           *)

\* hashlib.sha256 of a file's content, hex: distinct contents, distinct digests
Sha256(c) ==
    CASE c = "bytes_a" -> "9f86d0"
      [] c = "bytes_b" -> "60303a"
      [] c = Junk -> "4e0740"
      [] c = "conf" -> "b5bb9d"
      [] c = "bytes_a_patched" -> "2c26b4"
      [] c = "bytes_b_patched" -> "fcde2b"

\* os.path.getsize
GetSize(c) == IF c = "bytes_b" THEN 8192 ELSE 4096

\* _calculate_checksum: the digest, or "" when open/read raises
CalculateChecksum(c, raises) ==
    IF raises \/ c = Absent THEN "" ELSE Sha256(c)

\* strftime("%Y%m%d_%H%M%S"): fixed width, zero padded
Strftime(t) == <<(t \div 10) % 10, t % 10>>

\* Python's str > str on two strings of the same width
RECURSIVE StrGreater(_, _)
StrGreater(a, b) ==
    IF a = <<>> \/ b = <<>> THEN a # <<>> /\ b = <<>>
    ELSE IF Head(a) # Head(b) THEN Head(a) > Head(b)
    ELSE StrGreater(Tail(a), Tail(b))

\* f"nvidia_{version}_{timestamp}"
BackupName(version, timestamp) == <<"nvidia", version, timestamp>>

\* backup_path / filename
BackupFile(backup_name, filename) == [dir |-> backup_name, file |-> filename]

\* backup_path / "config" / filename
BackupConfig(backup_name, filename) ==
    [dir |-> <<backup_name, "config">>, file |-> filename]

\* all orders in which a set can be listed
Orderings(S) ==
    {s \in [1..Cardinality(S) -> S] : \A i, j \in 1..Cardinality(S) : i # j => s[i] # s[j]}

\* DriverDetector.get_nvidia_module_paths: the existing candidates of the version
GetNvidiaModulePaths(files, version) ==
    {p \in ModulePaths : files[p] # Absent /\ p.version \in {"any", version}}

EmptyDir ==
    [files |-> [f \in ModuleFiles |-> Absent], config |-> [f \in ConfigFiles |-> Absent]]

\* index of the entry called name in a ledger, 0 if none
IndexOf(data, name) ==
    IF \E i \in 1..Len(data) : data[i].name = name
    THEN CHOOSE i \in 1..Len(data) : data[i].name = name
    ELSE 0

Names(data) == {data[i].name : i \in 1..Len(data)}

\* dict[name] = info: replaces in place, else appends
DictSet(data, info) ==
    IF IndexOf(data, info.name) # 0
    THEN [data EXCEPT ![IndexOf(data, info.name)] = info]
    ELSE Append(data, info)

\* del dict[name]
DictDel(data, name) ==
    SelectSeq(data, LAMBDA e : e.name # name)

----------------------------------------------------------------------------
(* create_backup                                                           *)

\* The loop over module_paths (lines 63-84).  acc is the snapshot directory's
\* files, backed_up_files and success_count so far; fault[p] is "copy" when
\* shutil.copy2 raises for p and "digest" when reading p for its checksum raises.
RECURSIVE CopyModules(_, _, _, _, _)
CopyModules(module_paths, files, backup_name, fault, acc) ==
    IF module_paths = <<>> THEN acc
    ELSE LET module_path == Head(module_paths)
             filename == module_path.file
             next ==
                 IF files[module_path] = Absent \/ fault[module_path] = "copy"
                 THEN acc
                 ELSE [dir |-> [acc.dir EXCEPT ![filename] = files[module_path]],
                       backed_up_files |-> Append(acc.backed_up_files,
                           [original |-> module_path,
                            backup |-> BackupFile(backup_name, filename),
                            size |-> GetSize(files[module_path]),
                            checksum |-> CalculateChecksum(files[module_path],
                                                           fault[module_path] = "digest")]),
                       success_count |-> acc.success_count + 1]
         IN CopyModules(Tail(module_paths), files, backup_name, fault, next)

\* _backup_config_files (lines 112-140): fault[c] is "copy" when copy2 raises
RECURSIVE BackupConfigFiles(_, _, _, _, _)
BackupConfigFiles(config_paths, configs, backup_name, fault, acc) ==
    IF config_paths = <<>> THEN acc
    ELSE LET config_path == Head(config_paths)
             filename == config_path.file
             next ==
                 IF configs[config_path] = Absent \/ fault[config_path] = "copy"
                 THEN acc
                 ELSE [dir |-> [acc.dir EXCEPT ![filename] = configs[config_path]],
                       config_files |-> Append(acc.config_files,
                           [original |-> config_path,
                            backup |-> BackupConfig(backup_name, filename)])]
         IN BackupConfigFiles(Tail(config_paths), configs, backup_name, fault, next)

\* mutant: the entries the stored index holds under other names are kept
SaveBackupIndexMerged(data, stored, fault) ==
    [status |-> "stored",
     data |-> SelectSeq(stored.data, LAMBDA e : e.name \notin Names(data)) \o data]

\* save_backup_index (lines 36-42): the whole index is written; when open
\* raises the stored index stays, when json.dump raises the file is left
\* truncated; both are logged and swallowed
SaveBackupIndex(data, stored, fault) ==
    CASE fault = "ok" -> [status |-> "stored", data |-> data]
      [] fault = "open" -> stored
      [] fault = "write" -> [status |-> "malformed", data |-> <<>>]

LoadFaults == {"ok", "read"}

\* mutant: the index file is read whatever open raises
LoadBackupIndexAnyway(stored, fault) ==
    IF stored.status = "stored" THEN stored.data ELSE <<>>

\* load_backup_index (lines 24-34): {} when the file is missing, the parsed
\* file when it loads, and {} when open or json.load raises
LoadBackupIndex(stored, fault) ==
    CASE stored.status = "missing" -> <<>>
      [] stored.status # "missing" /\ fault = "read" -> <<>>
      [] stored.status = "malformed" /\ fault # "read" -> <<>>
      [] OTHER -> stored.data

\* the entry create_backup puts in the index (lines 90-97)
NewEntry(backup_name, version, timestamp, backed_up_files, config_files) ==
    [name |-> backup_name, version |-> version, timestamp |-> timestamp,
     files |-> backed_up_files, config_files |-> config_files]

\* mutant: a backup that copied nothing is reported as made
CreateSucceedsAlways(success_count) == success_count >= 0

\* create_backup's return value (lines 101-106): the path iff success_count > 0
CreateSucceeds(success_count) == success_count > 0

\* the state create_backup leaves (lines 46-110), given the order in which the
\* detector lists the modules and the calls that raise
CreateBackupResult(m, version, module_paths, config_paths, fault) ==
    LET timestamp == Strftime(now)
        backup_name == BackupName(version, timestamp)
        old == IF backup_name \in DOMAIN snap THEN snap[backup_name] ELSE EmptyDir
        copied == CopyModules(module_paths, orig, backup_name, fault.file,
                      [dir |-> old.files, backed_up_files |-> <<>>, success_count |-> 0])
        cfg == BackupConfigFiles(config_paths, conf, backup_name, fault.config,
                      [dir |-> old.config, config_files |-> <<>>])
        data == DictSet(backup_data[m],
                    NewEntry(backup_name, version, timestamp,
                             copied.backed_up_files, cfg.config_files))
    IN [snap |-> [n \in DOMAIN snap \cup {backup_name} |->
                     IF n = backup_name
                     THEN [files |-> copied.dir, config |-> cfg.dir]
                     ELSE snap[n]],
        data |-> data,
        index |-> SaveBackupIndex(data, index_file, fault.save),
        name |-> backup_name,
        success_count |-> copied.success_count,
        ok |-> CreateSucceeds(copied.success_count)]

\* every call and every event is one step of the run
Step == budget > 0 /\ budget' = budget - 1

SaveFaults == {"ok", "open", "write"}

NoFault ==
    [file |-> [p \in ModulePaths |-> "ok"], config |-> [c \in ConfigPaths |-> "ok"],
     save |-> "ok", dir |-> "ok"]

\* What may raise during one call that copies the module files paths and the
\* configuration files configs: nothing; or one call, a copy or a digest read
\* of one file or the save of the index; or, the target being unwritable,
\* the copy of every module file.  kinds and saves name the faults the host
\* can show.
Faults(paths, configs, kinds, saves) ==
    {NoFault}
    \cup {[NoFault EXCEPT !.file[p] = k] : p \in paths, k \in kinds \cap {"copy", "digest"}}
    \cup {[NoFault EXCEPT !.file = [p \in ModulePaths |-> IF p \in paths THEN k ELSE "ok"]] :
             k \in kinds \cap {"copy"}}
    \cup {[NoFault EXCEPT !.config[c] = "copy"] : c \in configs, k \in kinds \cap {"config"}}
    \cup {[NoFault EXCEPT !.save = f] : f \in saves}

CreateBackup(m, version, kinds, saves) ==
    /\ Step
    /\ UNCHANGED verifier_vars
    /\ \/ Len(backup_data[m]) < MaxBackups
       \/ BackupName(version, Strftime(now)) \in Names(backup_data[m])
    /\ \E module_paths \in Orderings(GetNvidiaModulePaths(orig, version)),
          config_paths \in Orderings(ConfigPaths) :
        \E fault \in Faults(GetNvidiaModulePaths(orig, version),
                             {c \in ConfigPaths : conf[c] # Absent}, kinds, saves) :
            LET r == CreateBackupResult(m, version, module_paths, config_paths, fault)
            IN /\ snap' = r.snap
               /\ backup_data' = [backup_data EXCEPT ![m] = r.data]
               /\ index_file' = r.index
               /\ ret' = [op |-> "create_backup", version |-> version,
                          name |-> r.name, ok |-> r.ok, count |-> 0,
                          fault |-> fault, outcome |-> <<>>]
               /\ UNCHANGED <<orig, conf, now>>

\* what ends create_backup in its outer handler before a file is copied:
\* backup_path.mkdir raises (line 51), or the import or the call of the
\* detector raises (lines 56-58), the directory being made by then
AbortFaults == {"mkdir", "detector"}

\* create_backup when kind raises: the outer handler (lines 108-110) returns
\* None, nothing is recorded
CreateBackupAborted(m, version, kind) ==
    LET backup_name == BackupName(version, Strftime(now))
    IN /\ Step
       /\ UNCHANGED verifier_vars
       /\ snap' = IF kind = "detector" /\ backup_name \notin DOMAIN snap
                  THEN [n \in DOMAIN snap \cup {backup_name} |->
                           IF n = backup_name THEN EmptyDir ELSE snap[n]]
                  ELSE snap
       /\ ret' = [op |-> "create_backup", version |-> version,
                  name |-> backup_name, ok |-> FALSE, count |-> 0,
                  fault |-> [NoFault EXCEPT !.dir = kind], outcome |-> <<>>]
       /\ UNCHANGED <<orig, conf, backup_data, index_file, now>>

----------------------------------------------------------------------------
(* restore_backup                                                          *)

\* mutant: the comparison of the timestamps is turned round
RECURSIVE FindOldestFrom(_, _, _, _)
FindOldestFrom(data, version, latest_backup, latest_timestamp) ==
    IF data = <<>> THEN latest_backup
    ELSE LET backup_info == Head(data)
             take == /\ backup_info.version = version
                     /\ backup_info.timestamp # <<>>
                     /\ \/ latest_backup = <<>>
                        \/ StrGreater(latest_timestamp, backup_info.timestamp)
         IN IF take
            THEN FindOldestFrom(Tail(data), version, backup_info.name, backup_info.timestamp)
            ELSE FindOldestFrom(Tail(data), version, latest_backup, latest_timestamp)

\* _find_latest_backup (lines 205-217): one pass over the index in dict order
RECURSIVE FindLatestFrom(_, _, _, _)
FindLatestFrom(data, version, latest_backup, latest_timestamp) ==
    IF data = <<>> THEN latest_backup
    ELSE LET backup_info == Head(data)
             take == /\ backup_info.version = version
                     /\ backup_info.timestamp # <<>>
                     /\ \/ latest_backup = <<>>
                        \/ StrGreater(backup_info.timestamp, latest_timestamp)
         IN IF take
            THEN FindLatestFrom(Tail(data), version, backup_info.name, backup_info.timestamp)
            ELSE FindLatestFrom(Tail(data), version, latest_backup, latest_timestamp)

\* mutant: the version of the entries is not looked at
FindLatestOfAnyVersion(data, version) ==
    IF data = <<>> THEN <<>> ELSE data[Len(data)].name

\* the name found, or <<>> for Python's None
FindLatestBackup(data, version) == FindLatestFrom(data, version, <<>>, <<>>)

\* One iteration of the loop over backup_info['files'] (lines 161-179), as the
\* log line it ends with: copy is the content of the backup copy, fault is
\* "digest" when reading the copy for its checksum raises and "copy" when
\* shutil.copy2 raises.
RestoreOutcome(file_info, copy, fault) ==
    IF copy = Absent THEN "missing"
    ELSE IF CalculateChecksum(copy, fault = "digest") = file_info.checksum
         THEN IF fault = "copy" THEN "error" ELSE "restored"
         ELSE "mismatch"

\* mutant: the first record that is not restored ends the loop
RECURSIVE RestoreFilesUntilFailure(_, _, _, _)
RestoreFilesUntilFailure(file_infos, dir, fault, acc) ==
    IF file_infos = <<>> THEN acc
    ELSE LET file_info == Head(file_infos)
             copy == dir[file_info.backup.file]
             outcome == RestoreOutcome(file_info, copy, fault[file_info.original])
             next ==
                 [files |-> IF outcome = "restored"
                            THEN [acc.files EXCEPT ![file_info.original] = copy]
                            ELSE acc.files,
                  outcome |-> Append(acc.outcome, outcome),
                  success_count |-> acc.success_count + (IF outcome = "restored" THEN 1 ELSE 0)]
         IN IF outcome = "restored"
            THEN RestoreFilesUntilFailure(Tail(file_infos), dir, fault, next)
            ELSE next

\* the loop over backup_info['files']: acc is the module files, the outcome
\* of every record and success_count so far
RECURSIVE RestoreFiles(_, _, _, _)
RestoreFiles(file_infos, dir, fault, acc) ==
    IF file_infos = <<>> THEN acc
    ELSE LET file_info == Head(file_infos)
             copy == dir[file_info.backup.file]
             outcome == RestoreOutcome(file_info, copy, fault[file_info.original])
             next ==
                 [files |-> IF outcome = "restored"
                            THEN [acc.files EXCEPT ![file_info.original] = copy]
                            ELSE acc.files,
                  outcome |-> Append(acc.outcome, outcome),
                  success_count |-> acc.success_count + (IF outcome = "restored" THEN 1 ELSE 0)]
         IN RestoreFiles(Tail(file_infos), dir, fault, next)

\* the loop over backup_info['config_files'] (lines 182-192): no checksum
RECURSIVE RestoreConfigs(_, _, _, _)
RestoreConfigs(config_infos, dir, fault, configs) ==
    IF config_infos = <<>> THEN configs
    ELSE LET config_info == Head(config_infos)
             copy == dir[config_info.backup.file]
             next == IF copy # Absent /\ fault[config_info.original] = "ok"
                     THEN [configs EXCEPT ![config_info.original] = copy]
                     ELSE configs
         IN RestoreConfigs(Tail(config_infos), dir, fault, next)

\* mutant: a restore that copied nothing back is reported as done
RestoreSucceedsAlways(success_count) == success_count >= 0

\* restore_backup's return value (lines 194-199)
RestoreSucceeds(success_count) == success_count > 0

\* the directory restore reads: the snapshot directory, or nothing when it is gone
DirOf(backup_name) == IF backup_name \in DOMAIN snap THEN snap[backup_name] ELSE EmptyDir

RestoreBackup(m, version, kinds) ==
    LET latest_backup == FindLatestBackup(backup_data[m], version)
    IN /\ Step
       /\ UNCHANGED verifier_vars
       /\ IF latest_backup = <<>>
          THEN /\ ret' = [op |-> "restore_backup", version |-> version,
                          name |-> <<>>, ok |-> FALSE, count |-> 0,
                          fault |-> NoFault, outcome |-> <<>>]
               /\ UNCHANGED <<orig, conf, snap, backup_data, index_file, now>>
          ELSE LET backup_info == backup_data[m][IndexOf(backup_data[m], latest_backup)]
                   recorded == {backup_info.files[i].original : i \in 1..Len(backup_info.files)}
                   configs == {backup_info.config_files[i].original :
                                  i \in 1..Len(backup_info.config_files)}
               IN \E fault \in Faults(recorded, configs, kinds, {}) :
                      LET r == RestoreFiles(backup_info.files, DirOf(latest_backup).files,
                                   fault.file,
                                   [files |-> orig, outcome |-> <<>>, success_count |-> 0])
                      IN /\ orig' = r.files
                         /\ conf' = RestoreConfigs(backup_info.config_files,
                                        DirOf(latest_backup).config, fault.config, conf)
                         /\ ret' = [op |-> "restore_backup", version |-> version,
                                    name |-> latest_backup,
                                    ok |-> RestoreSucceeds(r.success_count), count |-> 0,
                                    fault |-> fault, outcome |-> r.outcome]
                         /\ UNCHANGED <<snap, backup_data, index_file, now>>

----------------------------------------------------------------------------
(* list_backups, delete_backup, cleanup_old_backups                        *)

\* sorted(backups, key=timestamp, reverse=True): stable, so entries with the
\* same timestamp keep their dict order
RECURSIVE InsertDesc(_, _)
InsertDesc(sorted, e) ==
    IF sorted = <<>> THEN <<e>>
    ELSE IF StrGreater(e.timestamp, Head(sorted).timestamp)
         THEN <<e>> \o sorted
         ELSE <<Head(sorted)>> \o InsertDesc(Tail(sorted), e)

RECURSIVE SortDesc(_, _)
SortDesc(data, sorted) ==
    IF data = <<>> THEN sorted
    ELSE SortDesc(Tail(data), InsertDesc(sorted, Head(data)))

\* list_backups (lines 219-233)
ListBackups(data) == SortDesc(data, <<>>)

\* what can raise in one delete_backup call: shutil.rmtree before it removed
\* anything ("rmtree") or after it removed the module files ("partial"), or
\* the save of the index ("open", "write")
DeleteFaults == {"ok", "rmtree", "partial", "open", "write"}

\* mutant: the name is not looked up in the index before the removal
DeleteBackupUnchecked(st, backup_name, fault) ==
    LET data == DictDel(st.data, backup_name)
    IN [data |-> data,
        index |-> SaveBackupIndex(data, st.index, IF fault \in SaveFaults THEN fault ELSE "ok"),
        snap |-> [n \in DOMAIN st.snap \ {backup_name} |-> st.snap[n]],
        ok |-> TRUE]

\* delete_backup (lines 235-257) on the state st = [data, index, snap]
DeleteBackupResult(st, backup_name, fault) ==
    IF backup_name \notin Names(st.data)
    THEN [data |-> st.data, index |-> st.index, snap |-> st.snap, ok |-> FALSE]
    ELSE IF backup_name \in DOMAIN st.snap /\ fault \in {"rmtree", "partial"}
    THEN [data |-> st.data, index |-> st.index,
          snap |-> IF fault = "partial"
                   THEN [st.snap EXCEPT ![backup_name].files = EmptyDir.files]
                   ELSE st.snap,
          ok |-> FALSE]
    ELSE LET data == DictDel(st.data, backup_name)
         IN [data |-> data,
             index |-> SaveBackupIndex(data, st.index,
                           IF fault \in SaveFaults THEN fault ELSE "ok"),
             snap |-> [n \in DOMAIN st.snap \ {backup_name} |-> st.snap[n]],
             ok |-> TRUE]

\* mutant: the first delete_backup that fails ends the loop
RECURSIVE DeleteAllUntilFailure(_, _, _, _, _)
DeleteAllUntilFailure(to_delete, fault, st, deleted_count, log) ==
    IF to_delete = <<>>
    THEN [data |-> st.data, index |-> st.index, snap |-> st.snap, count |-> deleted_count,
          log |-> log]
    ELSE LET r == DeleteBackupResult(st, Head(to_delete).name, fault[Head(to_delete).name])
         IN DeleteAllUntilFailure(IF r.ok THEN Tail(to_delete) ELSE <<>>, fault, r,
                      IF r.ok THEN deleted_count + 1 ELSE deleted_count,
                      Append(log, [name |-> Head(to_delete).name, ok |-> r.ok]))

\* the loop of cleanup_old_backups (lines 271-273) over to_delete; log is
\* what delete_backup logged for each name so far
RECURSIVE DeleteAll(_, _, _, _, _)
DeleteAll(to_delete, fault, st, deleted_count, log) ==
    IF to_delete = <<>>
    THEN [data |-> st.data, index |-> st.index, snap |-> st.snap, count |-> deleted_count,
          log |-> log]
    ELSE LET r == DeleteBackupResult(st, Head(to_delete).name, fault[Head(to_delete).name])
         IN DeleteAll(Tail(to_delete), fault, r,
                      IF r.ok THEN deleted_count + 1 ELSE deleted_count,
                      Append(log, [name |-> Head(to_delete).name, ok |-> r.ok]))

\* mutant: the first entries of the listing are taken for deletion, not the last
SliceUpTo(s, keep_count) ==
    IF keep_count >= Len(s) THEN <<>> ELSE SubSeq(s, 1, Len(s) - keep_count)

\* backups[keep_count:]
SliceFrom(s, keep_count) ==
    IF keep_count >= Len(s) THEN <<>> ELSE SubSeq(s, keep_count + 1, Len(s))

\* cleanup_old_backups (lines 259-280)
CleanupResult(st, keep_count, fault) ==
    LET backups == ListBackups(st.data)
    IN IF Len(backups) <= keep_count
       THEN [data |-> st.data, index |-> st.index, snap |-> st.snap, count |-> 0,
             log |-> <<>>]
       ELSE DeleteAll(SliceFrom(backups, keep_count), fault, st, 0, <<>>)

Disk(m) == [data |-> backup_data[m], index |-> index_file, snap |-> snap]

\* every name a caller can pass: the names in the index, the names of the
\* snapshot directories, and one that is neither
DeletableNames(m) ==
    Names(backup_data[m]) \cup DOMAIN snap \cup {BackupName("000", Strftime(0))}

DeleteBackup(m, backup_name, faults) ==
    /\ Step
    /\ UNCHANGED verifier_vars
    /\ \E fault \in faults :
        LET r == DeleteBackupResult(Disk(m), backup_name, fault)
        IN /\ backup_data' = [backup_data EXCEPT ![m] = r.data]
           /\ index_file' = r.index
           /\ snap' = r.snap
           /\ ret' = [op |-> "delete_backup", version |-> "",
                      name |-> backup_name, ok |-> r.ok, count |-> 0,
                      fault |-> [NoFault EXCEPT !.dir = fault], outcome |-> <<>>]
           /\ UNCHANGED <<orig, conf, now>>

CleanupOldBackups(m, keep_count, faults) ==
    /\ Step
    /\ UNCHANGED verifier_vars
    /\ \E fault \in [Names(backup_data[m]) -> faults] :
        LET r == CleanupResult(Disk(m), keep_count, fault)
        IN /\ backup_data' = [backup_data EXCEPT ![m] = r.data]
           /\ index_file' = r.index
           /\ snap' = r.snap
           /\ ret' = [op |-> "cleanup_old_backups", version |-> "",
                      name |-> <<>>, ok |-> TRUE, count |-> r.count,
                      fault |-> [NoFault EXCEPT !.dir = fault], outcome |-> r.log,
                      keep_count |-> keep_count]
           /\ UNCHANGED <<orig, conf, now>>

----------------------------------------------------------------------------
(* The environment: the clock, the patch tool and whatever else writes the *)
(* driver and configuration files, and damage to the snapshot copies.      *)

Idle ==
    [op |-> "idle", version |-> "", name |-> <<>>, ok |-> TRUE, count |-> 0,
     fault |-> NoFault, outcome |-> <<>>]

Tick ==
    /\ Step
    /\ UNCHANGED verifier_vars
    /\ now < FirstSecond + MaxTicks
    /\ now' = now + 1
    /\ ret' = Idle
    /\ UNCHANGED <<orig, conf, snap, backup_data, index_file>>

ModifyOriginal(p, c) ==
    /\ Step
    /\ UNCHANGED verifier_vars
    /\ orig[p] # c
    /\ orig' = [orig EXCEPT ![p] = c]
    /\ ret' = Idle
    /\ UNCHANGED <<conf, snap, backup_data, index_file, now>>

\* a module file is removed from the host
RemoveOriginal(p) ==
    /\ Step
    /\ UNCHANGED verifier_vars
    /\ orig[p] # Absent
    /\ orig' = [orig EXCEPT ![p] = Absent]
    /\ ret' = Idle
    /\ UNCHANGED <<conf, snap, backup_data, index_file, now>>

EditConfig(c) ==
    /\ Step
    /\ UNCHANGED verifier_vars
    /\ conf' = [conf EXCEPT ![c] = IF conf[c] = Absent THEN "conf" ELSE Absent]
    /\ ret' = Idle
    /\ UNCHANGED <<orig, snap, backup_data, index_file, now>>

\* a byte of a backup copy flips
CorruptCopy(backup_name, f) ==
    /\ Step
    /\ UNCHANGED verifier_vars
    /\ backup_name \in DOMAIN snap
    /\ snap[backup_name].files[f] \notin {Absent, Junk}
    /\ snap' = [snap EXCEPT ![backup_name].files[f] = Junk]
    /\ ret' = Idle
    /\ UNCHANGED <<orig, conf, backup_data, index_file, now>>

\* a backup copy is removed
RemoveCopy(backup_name, f) ==
    /\ Step
    /\ UNCHANGED verifier_vars
    /\ backup_name \in DOMAIN snap
    /\ snap[backup_name].files[f] # Absent
    /\ snap' = [snap EXCEPT ![backup_name].files[f] = Absent]
    /\ ret' = Idle
    /\ UNCHANGED <<orig, conf, backup_data, index_file, now>>

\* BackupManager.__init__ (lines 17-22) in a new process on the same backup
\* root: the manager m starts from what load_backup_index gives it
Construct(m, fault) ==
    /\ Step
    /\ UNCHANGED verifier_vars
    /\ backup_data' = [backup_data EXCEPT ![m] = LoadBackupIndex(index_file, fault)]
    /\ ret' = [op |-> "load_backup_index", version |-> "", name |-> <<>>,
               ok |-> TRUE, count |-> 0,
               fault |-> [NoFault EXCEPT !.save = fault], outcome |-> <<>>]
    /\ UNCHANGED <<orig, conf, snap, index_file, now>>

----------------------------------------------------------------------------
(* The patcher (src/src/patcher.py): patch_driver, which runs the backup,  *)
(* the external patch tool on every module and the reload of the kernel    *)
(* modules.  ret.outcome is the list of the calls it made.                 *)

\* what `patch -b module_path patch_file` leaves of a module it applies to
PatchOf(c) == IF c = "bytes_a" THEN "bytes_a_patched" ELSE "bytes_b_patched"

\* the patch applies to the builds of the driver, not to a patched module
CanPatch(c) == c \in Content

Called(cmd, target, ok) == [cmd |-> cmd, target |-> target, ok |-> ok]

\* mutant: the flag dry_run does not keep the patch tool from running
ToolSkippedNever(dry_run) == FALSE

\* apply_patch, lines 184-186: with dry_run the module is logged and passed
ToolSkipped(dry_run) == dry_run

\* The loop of apply_patch over nvidia_paths (lines 177-199): tool[p] is
\* "fail" when the patch tool ends with a return code other than 0 on p,
\* which ends the loop; acc is the module files, the calls and the result.
RECURSIVE ApplyPatchLoop(_, _, _, _)
ApplyPatchLoop(nvidia_paths, dry_run, tool, acc) ==
    IF nvidia_paths = <<>> THEN acc
    ELSE LET module_path == Head(nvidia_paths)
             applies == tool[module_path] = "ok" /\ CanPatch(acc.files[module_path])
         IN IF acc.files[module_path] = Absent \/ ToolSkipped(dry_run)
            THEN ApplyPatchLoop(Tail(nvidia_paths), dry_run, tool, acc)
            ELSE IF applies
            THEN ApplyPatchLoop(Tail(nvidia_paths), dry_run, tool,
                     [files |-> [acc.files EXCEPT ![module_path] = PatchOf(@)],
                      calls |-> Append(acc.calls, Called("patch", module_path, TRUE)),
                      ok |-> TRUE])
            ELSE [files |-> acc.files,
                  calls |-> Append(acc.calls, Called("patch", module_path, FALSE)),
                  ok |-> FALSE]

\* apply_patch (lines 162-205): False at once when the patch file is missing
ApplyPatch(files, nvidia_paths, dry_run, patch_file_exists, tool) ==
    IF ~patch_file_exists THEN [files |-> files, calls |-> <<>>, ok |-> FALSE]
    ELSE ApplyPatchLoop(nvidia_paths, dry_run, tool,
                        [files |-> files, calls |-> <<>>, ok |-> TRUE])

\* mutant: a failed backup does not end patch_driver
BackupFailedNever(dry_run, backup_ok) == FALSE

\* patch_driver, line 276: `not dry_run and not self.create_backup(driver)`
BackupFailed(dry_run, backup_ok) == ~dry_run /\ ~backup_ok

\* patch_driver, line 276: with dry_run create_backup is not called
BackupSkipped(dry_run) == dry_run

\* what the patch tool does in one run over the modules paths: it applies to
\* every module, or it fails on one
ToolOutcomes(paths) ==
    {[p \in ModulePaths |-> "ok"]}
    \cup {[p \in ModulePaths |-> IF p = bad THEN "fail" ELSE "ok"] : bad \in paths}

\* patch_driver (lines 252-297) for the detected driver of the given version.
\* made is what create_backup left, were it called now: CreateBackupResult,
\* or the unchanged state with ok = FALSE when it ended in its outer handler.
PatchDriverResult(m, made, dry_run, auto_mode, nvidia_paths, patch_file_exists, tool, reload_ok) ==
    LET kept == [snap |-> snap, data |-> backup_data[m], index |-> index_file]
        backup == IF BackupSkipped(dry_run) THEN kept ELSE made
        backup_calls == IF BackupSkipped(dry_run) THEN <<>>
                        ELSE <<Called("create_backup", made.name, made.ok)>>
        patch == ApplyPatch(orig, nvidia_paths, dry_run, patch_file_exists, tool)
        reload_calls == IF ~dry_run /\ auto_mode
                        THEN <<Called("reload_nvidia_module", "", reload_ok)>>
                        ELSE <<>>
    IN IF BackupFailed(dry_run, made.ok)
       THEN [snap |-> backup.snap, data |-> backup.data, index |-> backup.index,
             files |-> orig, calls |-> backup_calls, ok |-> FALSE]
       ELSE IF ~patch.ok
       THEN [snap |-> backup.snap, data |-> backup.data, index |-> backup.index,
             files |-> patch.files, calls |-> backup_calls \o patch.calls, ok |-> FALSE]
       ELSE [snap |-> backup.snap, data |-> backup.data, index |-> backup.index,
             files |-> patch.files,
             calls |-> backup_calls \o patch.calls \o reload_calls, ok |-> TRUE]

\* create_backup ended in its outer handler: nothing recorded, None returned
BackupNotMade(m, version) ==
    [snap |-> snap, data |-> backup_data[m], index |-> index_file,
     name |-> BackupName(version, Strftime(now)), success_count |-> 0, ok |-> FALSE]

PatchDriver(m, version, dry_run, auto_mode, kinds) ==
    /\ Step
    /\ UNCHANGED verifier_vars
    /\ \/ dry_run
       \/ Len(backup_data[m]) < MaxBackups
       \/ BackupName(version, Strftime(now)) \in Names(backup_data[m])
    /\ \E module_paths \in Orderings(GetNvidiaModulePaths(orig, version)),
          config_paths \in Orderings(ConfigPaths),
          patch_file_exists \in BOOLEAN,
          tool \in ToolOutcomes(GetNvidiaModulePaths(orig, version)),
          reload_ok \in IF ~dry_run /\ auto_mode THEN BOOLEAN ELSE {TRUE} :
        \E made \in IF dry_run THEN {BackupNotMade(m, version)}
                     ELSE {BackupNotMade(m, version)} \cup
                          {CreateBackupResult(m, version, module_paths, config_paths, fault) :
                              fault \in Faults(GetNvidiaModulePaths(orig, version),
                                  {c \in ConfigPaths : conf[c] # Absent}, kinds, {})} :
            LET r == PatchDriverResult(m, made, dry_run, auto_mode, module_paths,
                                       patch_file_exists, tool, reload_ok)
            IN /\ orig' = r.files
               /\ snap' = r.snap
               /\ backup_data' = [backup_data EXCEPT ![m] = r.data]
               /\ index_file' = r.index
               /\ ret' = [op |-> "patch_driver", version |-> version, name |-> made.name,
                          ok |-> r.ok, count |-> 0, fault |-> NoFault, outcome |-> r.calls,
                          dry_run |-> dry_run, auto_mode |-> auto_mode]
               /\ UNCHANGED <<conf, now>>

\* patch_driver when no supported driver is detected (lines 269-271)
PatchDriverNoDriver ==
    /\ Step
    /\ UNCHANGED verifier_vars
    /\ ret' = [op |-> "patch_driver", version |-> "", name |-> <<>>,
               ok |-> FALSE, count |-> 0, fault |-> NoFault, outcome |-> <<>>,
               dry_run |-> FALSE, auto_mode |-> FALSE]
    /\ UNCHANGED <<orig, conf, snap, backup_data, index_file, now>>

----------------------------------------------------------------------------
(* The patch verifier (src/tools/verify_patch.py).  A file is a sequence   *)
(* of bytes.  The catalogue has the shape of the source's: one version, a  *)
(* marker, and two changes of which the first replaces two bytes by two    *)
(* equal bytes and the second two bytes by three; the marker is cut to two *)
(* bytes and the offsets are brought down to the sizes of the files the    *)
(* model lists, the changes lying one after the other behind the marker.   *)

Byte == 0..2

\* the module the verifier is pointed at
VerifyPaths == {"/lib/modules/k/updates/nvidia.ko"}

\* the version the catalogue knows, and one it does not
DriverVersions == {"535.274.02", "550.54.14"}

patch_signatures ==
    [v \in {"535.274.02"} |->
        [magic_bytes |-> <<1, 0>>,
         expected_changes |->
            <<[offset |-> 2, original |-> <<0, 0>>, patched |-> <<2, 2>>],
              [offset |-> 4, original |-> <<1, 1>>, patched |-> <<0, 1, 2>>]>>]]

\* a path at which os.path.exists finds nothing, and a file of given content
NoFile == [exists |-> FALSE, content |-> <<>>]

FileOf(content) == [exists |-> TRUE, content |-> content]

\* every file of at most n bytes
RECURSIVE BytesUpTo(_)
BytesUpTo(n) ==
    IF n = 0 THEN {<<>>}
    ELSE BytesUpTo(n - 1) \cup [1..n -> Byte]

\* content[a:b] of Python, offsets from 0, cut at the end of the content
Slice(content, a, b) ==
    IF a >= Len(content) \/ a >= b THEN <<>>
    ELSE SubSeq(content, a + 1, IF b <= Len(content) THEN b ELSE Len(content))

\* pattern in content, for bytes
Contains(content, pattern) ==
    \E i \in 0..(Len(content) - Len(pattern)) :
        Slice(content, i, i + Len(pattern)) = pattern

\* hashlib.sha256(content).hexdigest(): one digest per content
HexDigest(content) == <<"sha256", content>>

\* _analyze_module (lines 73-109), as far as size and digest: the size is
\* taken by os.stat, the digest needs the file read; an exception is logged
\* and what was found so far returned
AnalyzeModule(content, fault) ==
    [size |-> Len(content),
     sha256 |-> IF fault = "read" THEN "" ELSE HexDigest(content)]

\* mutant: a change beyond the end of the file is passed over
RECURSIVE VerifyPatchDetailsInRange(_, _)
VerifyPatchDetailsInRange(content, changes) ==
    IF changes = <<>> THEN TRUE
    ELSE LET offset == Head(changes).offset
             patched == Head(changes).patched
         IN IF offset + Len(patched) <= Len(content)
            THEN IF Slice(content, offset, offset + Len(patched)) # patched
                 THEN FALSE
                 ELSE VerifyPatchDetailsInRange(content, Tail(changes))
            ELSE VerifyPatchDetailsInRange(content, Tail(changes))

\* mutant: a change at whose offset the original bytes stand is not applied
RECURSIVE VerifyPatchDetailsNotOriginal(_, _)
VerifyPatchDetailsNotOriginal(content, changes) ==
    IF changes = <<>> THEN TRUE
    ELSE LET offset == Head(changes).offset
             original == Head(changes).original
             patched == Head(changes).patched
         IN IF offset + Len(patched) <= Len(content)
            THEN IF \/ Slice(content, offset, offset + Len(patched)) # patched
                    \/ Slice(content, offset, offset + Len(original)) = original
                 THEN FALSE
                 ELSE VerifyPatchDetailsNotOriginal(content, Tail(changes))
            ELSE FALSE

\* _verify_patch_details (lines 156-178): the loop over expected_changes
RECURSIVE VerifyPatchDetails(_, _)
VerifyPatchDetails(content, changes) ==
    IF changes = <<>> THEN TRUE
    ELSE LET offset == Head(changes).offset
             patched == Head(changes).patched
         IN IF offset + Len(patched) <= Len(content)
            THEN IF Slice(content, offset, offset + Len(patched)) # patched
                 THEN FALSE
                 ELSE VerifyPatchDetails(content, Tail(changes))
            ELSE FALSE

\* mutant: the bytes are sliced and compared without the test of the bound
RECURSIVE VerifyPatchDetailsUnbounded(_, _, _)
VerifyPatchDetailsUnbounded(content, changes, log) ==
    IF changes = <<>> THEN [ok |-> TRUE, log |-> log]
    ELSE LET offset == Head(changes).offset
             patched == Head(changes).patched
             current_bytes == Slice(content, offset, offset + Len(patched))
             step == [offset |-> offset, compared |-> TRUE, current_bytes |-> current_bytes]
         IN IF current_bytes # patched
            THEN [ok |-> FALSE, log |-> Append(log, step)]
            ELSE VerifyPatchDetailsUnbounded(content, Tail(changes), Append(log, step))

\* _verify_patch_details (lines 156-178) step by step: for every change it
\* came to, whether it sliced and compared the bytes (lines 165-169) or
\* found the offset out of the file (lines 170-172), and what it returned
RECURSIVE VerifyPatchDetailsTrace(_, _, _)
VerifyPatchDetailsTrace(content, changes, log) ==
    IF changes = <<>> THEN [ok |-> TRUE, log |-> log]
    ELSE LET offset == Head(changes).offset
             patched == Head(changes).patched
         IN IF offset + Len(patched) <= Len(content)
            THEN LET current_bytes == Slice(content, offset, offset + Len(patched))
                     step == [offset |-> offset, compared |-> TRUE,
                              current_bytes |-> current_bytes]
                 IN IF current_bytes # patched
                    THEN [ok |-> FALSE, log |-> Append(log, step)]
                    ELSE VerifyPatchDetailsTrace(content, Tail(changes), Append(log, step))
            ELSE [ok |-> FALSE,
                  log |-> Append(log, [offset |-> offset, compared |-> FALSE,
                                       current_bytes |-> <<>>])]

\* _check_patch_signature (lines 131-154): False when the read raises, when
\* the catalogue has no entry for the version, when the marker is not in
\* the content; else what _verify_patch_details says
CheckPatchSignature(content, driver_version, fault) ==
    IF fault = "read" THEN FALSE
    ELSE IF driver_version \notin DOMAIN patch_signatures THEN FALSE
    ELSE LET signature_info == patch_signatures[driver_version]
         IN IF Contains(content, signature_info.magic_bytes)
            THEN VerifyPatchDetails(content, signature_info.expected_changes)
            ELSE FALSE

\* verify_module (lines 39-71)
VerifyModuleResult(module_path, file, driver_version, fault) ==
    LET call == [call |-> "verify_module", module_path |-> module_path,
                 driver_version |-> driver_version, fault |-> fault]
        content == file.content
    IN IF ~file.exists
       THEN call @@ [exists |-> FALSE, patched |-> FALSE, valid |-> FALSE,
                     details |-> <<>>, errors |-> <<"not_exists">>]
       ELSE LET signed == CheckPatchSignature(content, driver_version, fault)
            IN call @@ [exists |-> TRUE, patched |-> signed, valid |-> signed,
                        details |-> AnalyzeModule(content, fault), errors |-> <<>>]

\* the verifier before its first call
NoResult ==
    [call |-> "none", module_path |-> "", driver_version |-> "", fault |-> "ok",
     exists |-> FALSE, patched |-> FALSE, valid |-> FALSE, details |-> <<>>,
     errors |-> <<>>]

\* what can raise in one verify_module call: the reads of the file
ReadFaults == {"ok", "read"}

VerifyModule(module_path, driver_version) ==
    /\ \E fault \in IF disk[module_path].exists THEN ReadFaults ELSE {"ok"} :
          result' = VerifyModuleResult(module_path, disk[module_path], driver_version, fault)
    /\ UNCHANGED <<orig, conf, snap, backup_data, index_file, now, ret, budget, disk>>

\* the modules _find_nvidia_modules can come upon (lines 217-256): files
\* named nvidia*.ko under the kernel's module tree and the library paths
FleetPaths ==
    {"/lib/modules/k/updates/nvidia.ko", "/lib/modules/k/updates/nvidia-uvm.ko",
     "/usr/lib64/nvidia/nvidia-drm.ko"}

\* _find_nvidia_modules: the paths os.walk lists and os.path.exists confirms
FindNvidiaModules(files) == {p \in DOMAIN files : files[p].exists}

\* mutant: a fleet that is not valid throughout is taken as not patched
OverallStatusAllOrNothing(modules_checked, modules_patched, modules_valid) ==
    IF modules_checked = 0 THEN "not_found"
    ELSE IF modules_valid = modules_checked THEN "fully_patched"
    ELSE "not_patched"

\* the overall status of verify_driver_installation (lines 205-213)
OverallStatus(modules_checked, modules_patched, modules_valid) ==
    IF modules_checked = 0 THEN "not_found"
    ELSE IF modules_valid = modules_checked THEN "fully_patched"
    ELSE IF modules_patched > 0 THEN "partially_patched"
    ELSE "not_patched"

\* the loop of verify_driver_installation (lines 194-203) over module_paths
RECURSIVE VerifyEach(_, _, _, _, _)
VerifyEach(module_paths, files, driver_version, fault, acc) ==
    IF module_paths = <<>> THEN acc
    ELSE LET module_path == Head(module_paths)
             module_result == VerifyModuleResult(module_path, files[module_path],
                                                 driver_version, fault[module_path])
             next == [modules |-> Append(acc.modules, module_result),
                      modules_checked |-> acc.modules_checked + 1,
                      modules_patched |-> acc.modules_patched +
                                          (IF module_result.patched THEN 1 ELSE 0),
                      modules_valid |-> acc.modules_valid +
                                        (IF module_result.valid THEN 1 ELSE 0)]
         IN VerifyEach(Tail(module_paths), files, driver_version, fault, next)

\* verify_driver_installation (lines 180-215)
VerifyDriverInstallationResult(module_paths, files, driver_version, fault) ==
    LET r == VerifyEach(module_paths, files, driver_version, fault,
                 [modules |-> <<>>, modules_checked |-> 0, modules_patched |-> 0,
                  modules_valid |-> 0])
    IN [call |-> "verify_driver_installation", driver_version |-> driver_version,
        fault |-> fault,
        modules_checked |-> r.modules_checked, modules_patched |-> r.modules_patched,
        modules_valid |-> r.modules_valid, modules |-> r.modules,
        overall_status |-> OverallStatus(r.modules_checked, r.modules_patched,
                                         r.modules_valid)]

\* what may raise during one run over the modules found: nothing, or the
\* reads of one of them
FleetFaults(found) ==
    {[p \in FleetPaths |-> "ok"]}
    \cup {[p \in FleetPaths |-> IF p = bad THEN "read" ELSE "ok"] : bad \in found}

VerifyDriverInstallation(driver_version) ==
    /\ \E module_paths \in Orderings(FindNvidiaModules(disk)),
          fault \in FleetFaults(FindNvidiaModules(disk)) :
          /\ result' = VerifyDriverInstallationResult(module_paths, disk, driver_version, fault)
    /\ UNCHANGED <<orig, conf, snap, backup_data, index_file, now, ret, budget, disk>>

\* _verify_patch_details called on the content of a file and the changes
\* the catalogue declares for a version
VerifyPatchDetailsCall(module_path, driver_version) ==
    /\ disk[module_path].exists
    /\ driver_version \in DOMAIN patch_signatures
    /\ LET r == VerifyPatchDetailsTrace(disk[module_path].content,
                     patch_signatures[driver_version].expected_changes, <<>>)
       IN result' = [call |-> "_verify_patch_details", module_path |-> module_path,
                     driver_version |-> driver_version, fault |-> "ok",
                     exists |-> TRUE, patched |-> r.ok, valid |-> r.ok,
                     details |-> <<>>, errors |-> <<>>, log |-> r.log]
    /\ UNCHANGED <<orig, conf, snap, backup_data, index_file, now, ret, budget, disk>>

----------------------------------------------------------------------------
(* The specifications: one manager, constructed on an empty backup root of *)
(* a host whose two nvidia.ko files are different builds.                  *)

Kernel == CHOOSE p \in ModulePaths : p.version = "any"

InitLedger ==
    /\ orig = [p \in ModulePaths |-> IF p = Kernel THEN "bytes_a" ELSE "bytes_b"]
    /\ conf = [c \in ConfigPaths |-> "conf"]
    /\ snap = <<>>
    /\ backup_data = [m \in AllManagers |-> <<>>]
    /\ index_file = [status |-> "missing", data |-> <<>>]
    /\ now = FirstSecond
    /\ ret = Idle

\* the verifier has not been called, the module it would read is not there
InitHost ==
    /\ InitLedger
    /\ disk = [p \in VerifyPaths |-> NoFile]
    /\ result = NoResult

Init == InitHost /\ budget = MaxSteps

\* the environment's events
Event ==
    \/ Tick
    \/ \E p \in ModulePaths, c \in Content : ModifyOriginal(p, c)
    \/ \E c \in ConfigPaths : EditConfig(c)
    \/ \E backup_name \in DOMAIN snap, f \in ModuleFiles : CorruptCopy(backup_name, f)
    \/ \E backup_name \in DOMAIN snap, f \in ModuleFiles : RemoveCopy(backup_name, f)

\* every method of the manager, on a host whose I/O calls do not raise
Next ==
    \/ \E m \in Managers, version \in Versions : CreateBackup(m, version, {}, {})
    \/ \E m \in Managers, version \in Versions : CreateBackupAborted(m, version, "mkdir")
    \/ \E m \in Managers, version \in Versions : RestoreBackup(m, version, {})
    \/ \E m \in Managers : \E backup_name \in DeletableNames(m) :
          DeleteBackup(m, backup_name, {"ok"})
    \/ \E m \in Managers, keep_count \in 0..MaxKeep :
          CleanupOldBackups(m, keep_count, {"ok"})
    \/ \E p \in ModulePaths : RemoveOriginal(p)
    \/ Event

Spec == Init /\ [][Next]_vars

\* backup and restore on a host whose copies and digest reads may raise
InitIO == InitHost /\ budget = MaxStepsIO

NextIO ==
    \/ \E m \in Managers, version \in Versions :
          CreateBackup(m, version, {"copy", "digest", "config"}, {})
    \/ \E m \in Managers, version \in Versions : CreateBackupAborted(m, version, "mkdir")
    \/ \E m \in Managers, version \in Versions :
          RestoreBackup(m, version, {"copy", "digest", "config"})
    \/ Event

SpecIO == InitIO /\ [][NextIO]_vars

\* the ledger's methods on a host on which the removal of a snapshot
\* directory, the store of the index and the start of a backup may raise;
\* the backups are of one driver version, taken at different seconds
FaultVersions == {"535"}

InitFault == InitHost /\ budget = MaxStepsFault

NextFault ==
    \/ \E m \in Managers, version \in FaultVersions :
          CreateBackup(m, version, {}, SaveFaults)
    \/ \E m \in Managers, version \in FaultVersions, kind \in AbortFaults :
          CreateBackupAborted(m, version, kind)
    \/ \E m \in Managers : \E backup_name \in DeletableNames(m) :
          DeleteBackup(m, backup_name, DeleteFaults)
    \/ \E m \in Managers, keep_count \in 0..MaxKeep :
          CleanupOldBackups(m, keep_count, DeleteFaults)
    \/ Tick

SpecFault == InitFault /\ [][NextFault]_vars

\* two managers constructed on the same empty backup root, each of which
\* loaded the index before the other stored it; no call raises
InitTwo == InitHost /\ budget = MaxStepsTwo

NextTwo ==
    \/ \E m \in AllManagers, version \in Versions : CreateBackup(m, version, {}, {})
    \/ \E m \in AllManagers : \E backup_name \in Names(backup_data[m]) :
          DeleteBackup(m, backup_name, {"ok"})
    \/ Tick

SpecTwo == InitTwo /\ [][NextTwo]_vars

\* the patcher on a host on which the copies of a backup may raise
InitPatch == InitHost /\ budget = MaxStepsPatch

NextPatch ==
    \/ \E m \in Managers, version \in FaultVersions, dry_run \in BOOLEAN,
          auto_mode \in BOOLEAN :
          PatchDriver(m, version, dry_run, auto_mode, {"copy"})
    \/ PatchDriverNoDriver
    \/ Tick

SpecPatch == InitPatch /\ [][NextPatch]_vars

\* a manager that is constructed again between its calls, on a host where
\* the index file may be unreadable and its write may raise
InitReload == InitHost /\ budget = MaxStepsReload

NextReload ==
    \/ \E m \in Managers, version \in Versions : CreateBackup(m, version, {}, {"write"})
    \/ \E m \in Managers, fault \in LoadFaults : Construct(m, fault)
    \/ \E m \in Managers, version \in Versions : RestoreBackup(m, version, {})
    \/ \E m \in Managers, keep_count \in 0..MaxKeep :
          CleanupOldBackups(m, keep_count, {"ok"})
    \/ Tick

SpecReload == InitReload /\ [][NextReload]_vars

\* the verifier called on any file of at most MaxLen bytes, or on none
InitVerify ==
    /\ InitLedger
    /\ budget = 0
    /\ disk \in [VerifyPaths -> {FileOf(content) : content \in BytesUpTo(MaxLen)} \cup {NoFile}]
    /\ result = NoResult

NextVerify ==
    \/ \E module_path \in VerifyPaths, driver_version \in DriverVersions :
          VerifyModule(module_path, driver_version)
    \/ \E module_path \in VerifyPaths, driver_version \in DriverVersions :
          VerifyPatchDetailsCall(module_path, driver_version)

SpecVerify == InitVerify /\ [][NextVerify]_vars

\* the contents of the modules of a fleet: with the marker and every change,
\* with the marker and the first change, with the changes and no marker,
\* and with neither
FleetContents ==
    {<<1, 0, 2, 2, 0, 1, 2>>, <<1, 0, 2, 2>>, <<0, 0, 2, 2, 0, 1, 2>>, <<2, 1>>}

\* the verifier run over the modules it finds, each of which is one of the
\* files above or is not there
InitFleet ==
    /\ InitLedger
    /\ budget = 0
    /\ disk \in [FleetPaths -> {FileOf(content) : content \in FleetContents} \cup {NoFile}]
    /\ result = NoResult

NextFleet ==
    \E driver_version \in DriverVersions : VerifyDriverInstallation(driver_version)

SpecFleet == InitFleet /\ [][NextFleet]_vars

----------------------------------------------------------------------------
(* The claims.  ret describes the call that led to the current state, so a *)
(* state predicate on ret and the files speaks of the state right after    *)
(* that call.                                                              *)

Ledger == backup_data["A"]

Entry(backup_name) == Ledger[IndexOf(Ledger, backup_name)]

\* the content of the backup copy a FileRecord points to
CopyOf(file_info) == DirOf(file_info.backup.dir).files[file_info.backup.file]

\* the content of the backup copy a ConfigFileRecord points to
ConfigCopyOf(config_info) == DirOf(config_info.backup.dir[1]).config[config_info.backup.file]

\* the digest of a file that may be missing ("" is no digest of any content)
DigestOf(c) == IF c = Absent THEN "" ELSE Sha256(c)

JustRestored == ret.op = "restore_backup" /\ ret.name # <<>>

JustCreated == ret.op = "create_backup" /\ ret.fault.dir = "ok"

\* C1: restore overwrites an original only when the digest of the backup copy
\* equals the recorded checksum; a record whose copy does not match is skipped
\* and its original left alone.
C1_RestoreOnlyVerifiedCopies ==
    JustRestored =>
        \A i \in 1..Len(Entry(ret.name).files) :
            LET file_info == Entry(ret.name).files[i]
            IN ret.outcome[i] = "restored" => DigestOf(CopyOf(file_info)) = file_info.checksum

\* C2: right after create_backup, the digest of every recorded backup copy
\* equals the record's checksum, also when two candidates share a file name.
C2_RoundTripIdentity ==
    (JustCreated /\ ret.fault = NoFault) =>
        \A i \in 1..Len(Entry(ret.name).files) :
            LET file_info == Entry(ret.name).files[i]
            IN DigestOf(CopyOf(file_info)) = file_info.checksum

\* no copy of the snapshot was damaged since create_backup wrote it
Uncorrupted(backup_name) ==
    /\ backup_name \in DOMAIN snap
    /\ \A f \in ModuleFiles : snap[backup_name].files[f] # Junk
    /\ \A i \in 1..Len(Entry(backup_name).files) :
          CopyOf(Entry(backup_name).files[i]) # Absent

\* C3: a restore from a backup whose copies were not corrupted, in which no
\* call raised, leaves every backed-up original with the recorded checksum.
C3_RestoreGivesBackContent ==
    (JustRestored /\ ret.fault = NoFault /\ Uncorrupted(ret.name)) =>
        \A i \in 1..Len(Entry(ret.name).files) :
            LET file_info == Entry(ret.name).files[i]
            IN DigestOf(orig[file_info.original]) = file_info.checksum

\* the copy of record i matches its checksum and no call raised for it
Restorable(i) ==
    LET file_info == Entry(ret.name).files[i]
    IN /\ CopyOf(file_info) # Absent
       /\ Sha256(CopyOf(file_info)) = file_info.checksum
       /\ ret.fault.file[file_info.original] = "ok"

\* C4: in a restore, every record whose copy is intact and whose calls do not
\* raise is restored, whatever happens to the other records of the backup.
C4_PerFileFailureIsLocal ==
    JustRestored =>
        /\ Len(ret.outcome) = Len(Entry(ret.name).files)
        /\ \A i \in 1..Len(Entry(ret.name).files) :
              Restorable(i) =>
                  /\ ret.outcome[i] = "restored"
                  /\ orig[Entry(ret.name).files[i].original] = CopyOf(Entry(ret.name).files[i])

\* a restore in which one record failed and a later one was restored
C4_Witness ==
    /\ JustRestored
    /\ \E i, j \in 1..Len(ret.outcome) :
          /\ i < j
          /\ ret.outcome[i] \in {"mismatch", "missing", "error"}
          /\ ret.outcome[j] = "restored"
          /\ Restorable(j)

\* C5: a create_backup that copied no driver file adds nothing to the ledger,
\* so find_latest answers as before.
C5_EmptyBackupNotRecorded ==
    [][(ret'.op = "create_backup" /\ ~ret'.ok) =>
          /\ backup_data' = backup_data
          /\ \A v \in Versions :
                FindLatestBackup(backup_data'["A"], v) = FindLatestBackup(backup_data["A"], v)]_vars

\* the number of driver files the last create_backup copied
CopiedNow == IF ret.fault.dir = "ok" THEN Len(Entry(ret.name).files) ELSE 0

C7_DuplicateNameRejected ==
    [][(ret'.op = "create_backup" /\ ret'.name \in Names(backup_data["A"])) =>
          /\ ~ret'.ok
          /\ backup_data' = backup_data
          /\ snap' = snap]_vars

\* C8: an entry of the ledger never changes; it can only be deleted.
C8_EntriesImmutable ==
    [][\A i \in 1..Len(backup_data["A"]) :
          LET e == backup_data["A"][i]
          IN e.name \in Names(backup_data'["A"]) =>
                 backup_data'["A"][IndexOf(backup_data'["A"], e.name)] = e]_vars

\* a is before b in lexicographic order
LexLess(a, b) ==
    \E k \in 1..Len(a) : k <= Len(b) /\ a[k] < b[k] /\ \A j \in 1..(k - 1) : a[j] = b[j]

\* C9: find_latest(version) is the entry of that version with the greatest
\* timestamp, none iff there is no entry of that version, and restore uses it.
C9_FindLatest ==
    /\ \A v \in Versions :
          LET found == FindLatestBackup(Ledger, v)
              same == {i \in 1..Len(Ledger) : Ledger[i].version = v}
          IN IF same = {} THEN found = <<>>
             ELSE /\ found \in Names(Ledger)
                  /\ Entry(found).version = v
                  /\ \A i \in same : ~LexLess(Entry(found).timestamp, Ledger[i].timestamp)
    /\ ret.op = "restore_backup" =>
          /\ ret.name = FindLatestBackup(Ledger, ret.version)
          /\ ret.name # <<>> => Entry(ret.name).version = ret.version

\* a restore from the later of two backups of its version, with a backup of
\* another version in the ledger or not
C9_Witness ==
    /\ JustRestored
    /\ \E i \in 1..Len(Ledger) :
          /\ Ledger[i].version = ret.version
          /\ LexLess(Ledger[i].timestamp, Entry(ret.name).timestamp)

\* C10: restore returns True iff at least one FileRecord was copied back.
C10_RestoreSuccessIffFileRestored ==
    ret.op = "restore_backup" =>
        /\ ret.ok <=> \E i \in 1..Len(ret.outcome) : ret.outcome[i] = "restored"
        /\ \A i \in 1..Len(ret.outcome) :
              ret.outcome[i] = "restored" =>
                  orig[Entry(ret.name).files[i].original] = CopyOf(Entry(ret.name).files[i])

\* a restore that copied back every configuration file and no driver file
C10_Witness ==
    /\ JustRestored
    /\ ~ret.ok
    /\ Len(ret.outcome) > 0
    /\ Entry(ret.name).config_files # <<>>
    /\ \A i \in 1..Len(Entry(ret.name).config_files) :
          LET config_info == Entry(ret.name).config_files[i]
          IN /\ ConfigCopyOf(config_info) # Absent
             /\ ret.fault.config[config_info.original] = "ok"
             /\ conf[config_info.original] = ConfigCopyOf(config_info)

\* C11: a restore for a version of which the ledger holds no backup fails,
\* finds no backup, and leaves every driver file and every configuration
\* file as it was.
C11_RestoreWithoutBackupWritesNothing ==
    [][(/\ ret'.op = "restore_backup"
        /\ \A i \in 1..Len(backup_data["A"]) : backup_data["A"][i].version # ret'.version) =>
          /\ ~ret'.ok
          /\ ret'.name = <<>>
          /\ orig' = orig
          /\ conf' = conf]_vars

\* a restore that found no backup of its version although the ledger holds a
\* backup of another version whose intact copy differs from the original
C11_Witness ==
    /\ ret.op = "restore_backup"
    /\ ret.name = <<>>
    /\ ~ret.ok
    /\ \E i \in 1..Len(Ledger) :
          /\ Ledger[i].version # ret.version
          /\ \E j \in 1..Len(Ledger[i].files) :
                LET file_info == Ledger[i].files[j]
                IN /\ CopyOf(file_info) # Absent
                   /\ Sha256(CopyOf(file_info)) = file_info.checksum
                   /\ orig[file_info.original] # CopyOf(file_info)

\* C12: a digest read that raises is an error and never a digest: create_backup
\* records no FileRecord for a file whose digest read raised, and restore
\* copies back no record whose backup copy could not be read for its digest.
C12_FailedDigestIsError ==
    /\ JustCreated =>
          \A i \in 1..Len(Entry(ret.name).files) :
              ret.fault.file[Entry(ret.name).files[i].original] # "digest"
    /\ JustRestored =>
          \A i \in 1..Len(ret.outcome) :
              ret.fault.file[Entry(ret.name).files[i].original] = "digest" =>
                  ret.outcome[i] # "restored"

JustCleaned == ret.op = "cleanup_old_backups"

\* no removal of a snapshot directory raised in the last cleanup_old_backups
NoRemovalRaised ==
    \A i \in 1..Len(ret.outcome) : ret.fault.dir[ret.outcome[i].name] \notin {"rmtree", "partial"}

\* the timestamp in a backup's name
TimestampOf(backup_name) == backup_name[3]

\* C13: cleanup_old_backups(keep_count = N) on a ledger of M > N backups, no
\* removal raising, leaves exactly N entries, none of them older than a
\* removed one, and the kept entries are as they were.
C13_RetainKeepsMostRecent ==
    [][(/\ ret'.op = "cleanup_old_backups"
        /\ Len(backup_data["A"]) > ret'.keep_count
        /\ NoRemovalRaised') =>
          /\ Len(backup_data'["A"]) = ret'.keep_count
          /\ Len(ret'.outcome) = Len(backup_data["A"]) - ret'.keep_count
          /\ \A i \in 1..Len(backup_data'["A"]) :
                /\ \E j \in 1..Len(backup_data["A"]) :
                      backup_data["A"][j] = backup_data'["A"][i]
                /\ \A j \in 1..Len(backup_data["A"]) :
                      backup_data["A"][j].name \notin Names(backup_data'["A"]) =>
                          ~LexLess(backup_data'["A"][i].timestamp,
                                   backup_data["A"][j].timestamp)]_vars

\* a cleanup that kept the later of two backups and removed the earlier
C13_Witness ==
    /\ JustCleaned
    /\ NoRemovalRaised
    /\ ret.keep_count > 0
    /\ Len(Ledger) = ret.keep_count
    /\ \E i \in 1..Len(ret.outcome), j \in 1..Len(Ledger) :
          /\ ret.outcome[i].ok
          /\ LexLess(TimestampOf(ret.outcome[i].name), Ledger[j].timestamp)

\* the number of elements of a sequence of log lines that report success
RECURSIVE CountOk(_)
CountOk(log) ==
    IF log = <<>> THEN 0 ELSE (IF Head(log).ok THEN 1 ELSE 0) + CountOk(Tail(log))

\* C14: cleanup_old_backups returns the number of entries it removed from the
\* ledger, tries every backup after the keep_count most recent also when a
\* delete before it failed, removes each whose removal does not raise, and
\* leaves the keep_count most recent backups in the ledger unchanged.
C14_RetainCountsAndContinues ==
    [][ret'.op = "cleanup_old_backups" =>
          LET before == backup_data["A"]
              after == backup_data'["A"]
              listed == ListBackups(before)
              keep == ret'.keep_count
              excess == IF Len(before) > keep THEN Len(before) - keep ELSE 0
          IN /\ ret'.count = Len(before) - Len(after)
             /\ ret'.count = CountOk(ret'.outcome)
             /\ ret'.count <= excess
             /\ Len(ret'.outcome) = excess
             /\ \A i \in 1..excess :
                   /\ ret'.outcome[i].name = listed[keep + i].name
                   /\ ret'.outcome[i].ok <=> ret'.outcome[i].name \notin Names(after)
                   /\ ret'.fault.dir[ret'.outcome[i].name] \notin {"rmtree", "partial"} =>
                          ret'.outcome[i].ok
             /\ \A i \in 1..Len(listed) :
                   i <= keep => \E j \in 1..Len(after) : after[j] = listed[i]]_vars

\* a cleanup in which the removal of one backup raised and a later backup was
\* removed all the same
C14_Witness ==
    /\ JustCleaned
    /\ ret.count > 0
    /\ \E i, j \in 1..Len(ret.outcome) :
          /\ i < j
          /\ ~ret.outcome[i].ok
          /\ ret.outcome[i].name \in Names(Ledger)
          /\ ret.outcome[j].ok
          /\ ret.outcome[j].name \notin Names(Ledger)

\* C15: delete_backup of a name the ledger does not hold returns False and
\* leaves the in-memory ledger, the persisted index and every snapshot
\* directory as they were.
C15_DeleteUnknownChangesNothing ==
    [][(ret'.op = "delete_backup" /\ ret'.name \notin Names(backup_data["A"])) =>
          /\ ~ret'.ok
          /\ backup_data' = backup_data
          /\ index_file' = index_file
          /\ snap' = snap]_vars

\* a failed delete_backup of a name that is not in the ledger, which holds
\* a backup, while a snapshot directory of that name is there
C15_Witness ==
    /\ ret.op = "delete_backup"
    /\ ~ret.ok
    /\ ret.name \notin Names(Ledger)
    /\ Ledger # <<>>
    /\ ret.name \in DOMAIN snap

\* C16: delete_backup returns True only when the snapshot directory and the
\* entry in the persisted index are both gone; when the removal of the
\* directory or the store of the index raised, it does not return True.
C16_DeleteSuccessMeansBothGone ==
    ret.op = "delete_backup" =>
        /\ ret.ok => /\ ret.name \notin DOMAIN snap
                     /\ ret.name \notin Names(index_file.data)
        /\ (ret.name \in Names(index_file.data) /\ ret.fault.dir # "ok") => ~ret.ok

\* C17: after every create_backup, delete_backup and cleanup_old_backups,
\* returned with success or not, the names in the ledger are the names of
\* the snapshot directories under the backup root.
C17_LedgerMatchesDirectories ==
    ret.op \in {"create_backup", "delete_backup", "cleanup_old_backups"} =>
        Names(Ledger) = DOMAIN snap

\* the last call changed the in-memory ledger and reported success
MutatedWithSuccess ==
    \/ JustCreated /\ ret.ok
    \/ ret.op = "delete_backup" /\ ret.ok
    \/ JustCleaned /\ ret.count > 0

\* C18: with one manager, after every mutation of the ledger that reported
\* success the persisted index is the in-memory ledger.
C18_PersistedEqualsInMemory ==
    MutatedWithSuccess =>
        /\ index_file.status = "stored"
        /\ index_file.data = Ledger

\* C19: every store of a manager writes that manager's in-memory ledger as
\* the whole persisted index, whatever the index held before; so with two
\* managers a backup that one of them recorded with success can be missing
\* from the persisted index after the other stored.
C19_StoreRewritesWholeLedger ==
    [][\A m \in AllManagers :
          backup_data'[m] # backup_data[m] =>
              /\ index_file' = [status |-> "stored", data |-> backup_data'[m]]
              /\ \A o \in AllManagers \ {m} : backup_data'[o] = backup_data[o]]_vars

\* the lost update: manager A holds a backup it recorded with success, whose
\* snapshot directory is there, and the index another manager stored last
\* does not hold it
C19_Witness ==
    /\ index_file.status = "stored"
    /\ index_file.data = backup_data["B"]
    /\ ret.op = "create_backup" /\ ret.ok
    /\ \E i \in 1..Len(backup_data["A"]) :
          /\ backup_data["A"][i].files # <<>>
          /\ backup_data["A"][i].name \in DOMAIN snap
          /\ backup_data["A"][i].name \notin Names(index_file.data)

JustVerified == result.call = "verify_module"

\* the marker stands in content from some position on, byte after byte
MarkerOccurs(content, marker) ==
    \E i \in 1..Len(content) :
        /\ i + Len(marker) - 1 <= Len(content)
        /\ \A j \in 1..Len(marker) : content[i + j - 1] = marker[j]

\* the bytes of content at [offset, offset + len(patched)) are patched
ChangeApplied(content, change) ==
    /\ change.offset + Len(change.patched) <= Len(content)
    /\ \A j \in 1..Len(change.patched) : content[change.offset + j] = change.patched[j]

\* C20: verify_module on a file it can read returns valid = true iff the
\* file exists, the catalogue knows the version, the marker occurs in the
\* content as a contiguous run, and every declared change has its patched
\* bytes at its offset; on a file it cannot read valid is false.
C20_ValidIffMarkerAndAllChanges ==
    JustVerified =>
        LET file == disk[result.module_path]
            known == result.driver_version \in DOMAIN patch_signatures
        IN /\ result.exists <=> file.exists
           /\ result.fault = "read" => ~result.valid
           /\ result.fault = "ok" =>
                 (result.valid <=>
                     /\ file.exists
                     /\ known
                     /\ MarkerOccurs(file.content,
                                     patch_signatures[result.driver_version].magic_bytes)
                     /\ \A k \in 1..Len(patch_signatures[result.driver_version].expected_changes) :
                           ChangeApplied(file.content,
                               patch_signatures[result.driver_version].expected_changes[k]))

\* a file that holds the marker and every patched run, found valid
C20_Witness ==
    /\ JustVerified
    /\ result.valid
    /\ result.exists
    /\ Len(disk[result.module_path].content) = MaxLen

\* the last verify_module read its file for a version the catalogue knows
VerifiedKnown ==
    /\ JustVerified
    /\ result.exists
    /\ result.fault = "ok"
    /\ result.driver_version \in DOMAIN patch_signatures

\* C21: a file that holds the marker and in which a declared change is not
\* applied (other bytes, or the offset beyond the end) verifies as
\* patched = true, valid = false.
C21_MarkedButUnappliedIsPatchedNotValid ==
    VerifiedKnown =>
        LET content == disk[result.module_path].content
            signature_info == patch_signatures[result.driver_version]
        IN (/\ MarkerOccurs(content, signature_info.magic_bytes)
            /\ \E k \in 1..Len(signature_info.expected_changes) :
                  ~ChangeApplied(content, signature_info.expected_changes[k])) =>
               (result.patched /\ ~result.valid)

\* C22: verify_module for a version the catalogue does not know returns
\* patched = false, valid = false and an error entry that says so.
C22_UnknownVersionIsAnError ==
    (JustVerified /\ result.exists /\ result.driver_version \notin DOMAIN patch_signatures) =>
        /\ ~result.patched
        /\ ~result.valid
        /\ result.errors # <<>>

\* C23: _verify_patch_details tests offset + len(patched) <= len(content)
\* before it slices and compares: a change out of the file is not compared,
\* makes the call return False, and a change that is compared is compared
\* on bytes that all lie in the content; so for every length from 0 on.
C23_BoundCheckedBeforeCompare ==
    result.call = "_verify_patch_details" =>
        LET content == disk[result.module_path].content
            changes == patch_signatures[result.driver_version].expected_changes
        IN /\ Len(result.log) <= Len(changes)
           /\ \A i \in 1..Len(result.log) :
                 /\ result.log[i].offset = changes[i].offset
                 /\ result.log[i].compared <=>
                        changes[i].offset + Len(changes[i].patched) <= Len(content)
                 /\ result.log[i].compared =>
                        Len(result.log[i].current_bytes) = Len(changes[i].patched)
           /\ (\E k \in 1..Len(changes) :
                    changes[k].offset + Len(changes[k].patched) > Len(content)) =>
                 ~result.valid
           /\ result.valid <=> \A k \in 1..Len(changes) : ChangeApplied(content, changes[k])
           /\ result.valid = VerifyPatchDetails(content, changes)

\* the call on an empty file: the first change is out of the file, is not
\* compared, and the call returns False
C23_Witness ==
    /\ result.call = "_verify_patch_details"
    /\ disk[result.module_path].content = <<>>
    /\ ~result.valid
    /\ Len(result.log) = 1
    /\ ~result.log[1].compared

\* the changes with other original bytes, originals[k] for the k-th
WithOriginals(changes, originals) ==
    [k \in 1..Len(changes) |-> [changes[k] EXCEPT !.original = originals[k]]]

\* C24: the verdict of verify_module is the one every catalogue gives that
\* differs from the verifier's in the original bytes only; and a file with
\* the marker and the patched bytes in which the original bytes occur
\* nowhere is valid.
C24_VerdictIgnoresOriginal ==
    VerifiedKnown =>
        LET content == disk[result.module_path].content
            signature_info == patch_signatures[result.driver_version]
            changes == signature_info.expected_changes
            marked == Contains(content, signature_info.magic_bytes)
        IN /\ \A originals \in [1..Len(changes) -> BytesUpTo(2)] :
                 LET verdict == marked /\ VerifyPatchDetails(content,
                                              WithOriginals(changes, originals))
                 IN result.patched = verdict /\ result.valid = verdict
           /\ (/\ marked
               /\ \A k \in 1..Len(changes) : ChangeApplied(content, changes[k])) =>
                 result.valid

\* a file found valid in which the original bytes of no change occur
C24_Witness ==
    /\ VerifiedKnown
    /\ result.valid
    /\ \A k \in 1..Len(patch_signatures[result.driver_version].expected_changes) :
          ~Contains(disk[result.module_path].content,
                    patch_signatures[result.driver_version].expected_changes[k].original)

JustVerifiedFleet == result.call = "verify_driver_installation"

\* the modules the last run found
Found == FindNvidiaModules(disk)

\* the module at p carries the marker of the version of the last run
Marked(p) ==
    /\ result.driver_version \in DOMAIN patch_signatures
    /\ MarkerOccurs(disk[p].content, patch_signatures[result.driver_version].magic_bytes)

\* the module at p was read, carries the marker and every declared change
FullyValid(p) ==
    /\ result.fault[p] = "ok"
    /\ Marked(p)
    /\ \A k \in 1..Len(patch_signatures[result.driver_version].expected_changes) :
          ChangeApplied(disk[p].content,
                        patch_signatures[result.driver_version].expected_changes[k])

\* C25: verify_driver_installation gives one of four statuses, never
\* 'unknown': not_found iff it found no module; fully_patched iff it found
\* one and every module found is valid; partially_patched when some are
\* valid and some are not; not_patched when none carries the marker.
C25_FleetStatus ==
    JustVerifiedFleet =>
        LET valid == {p \in Found : FullyValid(p)}
        IN /\ result.overall_status \in
                  {"not_found", "fully_patched", "partially_patched", "not_patched"}
           /\ result.modules_checked = Cardinality(Found)
           /\ result.modules_valid = Cardinality(valid)
           /\ result.overall_status = "not_found" <=> Found = {}
           /\ result.overall_status = "fully_patched" <=> (Found # {} /\ valid = Found)
           /\ (valid # {} /\ valid # Found) => result.overall_status = "partially_patched"
           /\ (Found # {} /\ \A p \in Found : ~Marked(p)) =>
                 result.overall_status = "not_patched"

\* a run over a valid module and one that is not, found partially patched
C25_Witness ==
    /\ JustVerifiedFleet
    /\ result.overall_status = "partially_patched"
    /\ \E p, q \in Found : FullyValid(p) /\ ~FullyValid(q)

\* C26: a run that found a module, none of them valid, and one of them with
\* the marker and a change that is not applied, gives partially_patched.
C26_MarkedInvalidIsPartial ==
    (/\ JustVerifiedFleet
     /\ Found # {}
     /\ \A p \in Found : ~FullyValid(p)
     /\ \E p \in Found : result.fault[p] = "ok" /\ Marked(p)) =>
        result.overall_status = "partially_patched"

\* right after a run of patch_driver that detected a driver
JustPatched == ret.op = "patch_driver" /\ ret.version # ""

\* C27: in a run of patch_driver without dry_run the patch tool is called on
\* a module only after create_backup returned a backup in that run, which the
\* ledger then holds with a copied driver file; and when create_backup fails,
\* patch_driver returns False and no driver file is modified.
C27_PatchOnlyAfterBackup ==
    [][(ret'.op = "patch_driver" /\ ret'.version # "" /\ ~ret'.dry_run) =>
          LET calls == ret'.outcome
              made == calls # <<>> /\ calls[1].cmd = "create_backup" /\ calls[1].ok
          IN /\ \A i \in 1..Len(calls) :
                    calls[i].cmd = "patch" =>
                        /\ i > 1 /\ made
                        /\ \E k \in 1..Len(backup_data'["A"]) :
                               /\ backup_data'["A"][k].name = ret'.name
                               /\ backup_data'["A"][k].files # <<>>
             /\ ~made => (~ret'.ok /\ orig' = orig)]_vars

\* a run without dry_run whose backup failed, on a host with a module the
\* patch applies to: create_backup is the only call made
C27_Witness ==
    /\ JustPatched /\ ~ret.dry_run /\ ~ret.ok
    /\ Len(ret.outcome) = 1
    /\ ret.outcome[1].cmd = "create_backup" /\ ~ret.outcome[1].ok
    /\ \E p \in GetNvidiaModulePaths(orig, ret.version) : CanPatch(orig[p])

\* C28: a run of patch_driver with dry_run changes nothing: no backup and no
\* ledger entry is made, the patch tool is not called on any module and the
\* kernel modules are not reloaded, with auto_mode or without.
C28_DryRunChangesNothing ==
    [][(ret'.op = "patch_driver" /\ ret'.version # "" /\ ret'.dry_run) =>
          /\ ret'.outcome = <<>>
          /\ orig' = orig /\ conf' = conf /\ snap' = snap
          /\ backup_data' = backup_data /\ index_file' = index_file]_vars

\* a dry run with auto_mode that returned True on a host with a module the
\* patch applies to
C28_Witness ==
    /\ JustPatched /\ ret.dry_run /\ ret.auto_mode /\ ret.ok
    /\ \E p \in GetNvidiaModulePaths(orig, ret.version) : CanPatch(orig[p])

\* C29: in every entry of the ledger, the records of two different original
\* paths have different backup paths, so that no copy overwrites another.
C29_BackupPathsDistinct ==
    \A k \in 1..Len(Ledger) :
        \A i, j \in 1..Len(Ledger[k].files) :
            Ledger[k].files[i].original # Ledger[k].files[j].original =>
                Ledger[k].files[i].backup # Ledger[k].files[j].backup

\* the index file is there and the load of it raises
LoadFails(stored, fault) ==
    stored.status = "malformed" \/ (stored.status = "stored" /\ fault = "read")

\* C30: a manager constructed over an index file that is there and cannot be
\* loaded starts with an empty ledger and leaves the file as it is; every
\* call that then stores the ledger with success writes exactly the ledger in
\* memory, to which a call adds at most the entry it creates; and restore and
\* cleanup take their backups from the ledger in memory only.  So the backups
\* persisted before the failed load are out of reach from then on.
C30_FailedLoadForgetsBackups ==
    [][/\ (ret'.op = "load_backup_index" /\ LoadFails(index_file, ret'.fault.save)) =>
              (backup_data'["A"] = <<>> /\ index_file' = index_file /\ snap' = snap)
       /\ (ret'.op \in {"create_backup", "cleanup_old_backups"}
              /\ index_file' # index_file /\ index_file'.status = "stored") =>
              /\ index_file'.data = backup_data'["A"]
              /\ Names(backup_data'["A"]) \subseteq
                     Names(backup_data["A"]) \cup
                         (IF ret'.op = "create_backup" THEN {ret'.name} ELSE {})
       /\ ret'.op = "restore_backup" =>
              ret'.name = FindLatestBackup(backup_data["A"], ret'.version)
       /\ ret'.op = "cleanup_old_backups" =>
              \A i \in 1..Len(ret'.outcome) :
                  ret'.outcome[i].name \in Names(backup_data["A"])]_vars

\* after a failed load and a backup made and stored with success: a snapshot
\* directory with a copy in it that neither the ledger nor the stored index
\* names, and that find_latest does not give for its version
C30_Witness ==
    /\ ret.op = "create_backup" /\ ret.ok
    /\ index_file = [status |-> "stored", data |-> Ledger]
    /\ \E name \in DOMAIN snap :
          /\ name \notin Names(Ledger)
          /\ \E f \in ModuleFiles : snap[name].files[f] # Absent
          /\ \A version \in Versions : FindLatestBackup(Ledger, version) # name

====
